---- MODULE Spec2Model ----
(***************************************************************************)
(* how_fast_is_server.c: a main thread parses its options, validates them, *)
(* allocates one thread_info per run, creates one pthread per record with  *)
(* a pacing nanosleep between creations, then joins the threads in index   *)
(* order, printing one telemetry line per record, and finally prints a     *)
(* summary line.  Every thread runs start_curl_run on its own record.      *)
(***************************************************************************)
EXTENDS Integers, Sequences, FiniteSets, TLC

VARIABLES argv, pc, config, threads, heap, curl_global, i, result, errors,
          out, diag, exit_status, wpc, clock

vars == <<argv, pc, config, threads, heap, curl_global, i, result, errors,
          out, diag, exit_status, wpc, clock>>

(* ------------------------------ bounds --------------------------------- *)

\* Largest positive run count given on the command line.
MaxRuns == 2

\* Width in bits of the model's long / unsigned long (64 in the build).
LongBits == 4

\* Wall-clock time that passes between two successive timespec_get calls.
TickNanos == 600000000

(* ----------------------- constants of the program ---------------------- *)

EXIT_FAILURE == 1

NanosPerSec == 1000000000

\* errno values pthread_create / pthread_join may return.
EAGAIN == 11
ESRCH == 3

\* CURLcode values.
CURLE_OK == 0
CURLE_COULDNT_CONNECT == 7

\* errno reported by CURLINFO_OS_ERRNO on a refused connection.
ECONNREFUSED == 111

NULL == "<NULL>"

(* --------------------------- integer widths ---------------------------- *)

RECURSIVE Pow2(_)
Pow2(n) == IF n = 0 THEN 1 ELSE 2 * Pow2(n - 1)

ULONG_MAX == Pow2(LongBits) - 1
LONG_MAX == Pow2(LongBits - 1) - 1

\* strtoul(optarg, NULL, 0) on an option argument.  The argument is a
\* record: numeric tells whether it starts with a number, value is that
\* number.  No digits gives 0; a magnitude above ULONG_MAX gives ULONG_MAX;
\* a leading minus sign negates the magnitude in unsigned arithmetic.
strtoul(arg) ==
    IF ~arg.numeric THEN 0
    ELSE LET mag == IF arg.value < 0 THEN 0 - arg.value ELSE arg.value
         IN IF mag > ULONG_MAX THEN ULONG_MAX
            ELSE IF arg.value < 0 THEN (ULONG_MAX + 1 - mag) % (ULONG_MAX + 1)
            ELSE mag

\* Conversion of an unsigned long to long on assignment.
ToLong(u) == IF u > LONG_MAX THEN u - (ULONG_MAX + 1) ELSE u

(* ------------------------------- inputs -------------------------------- *)

Urls == {"", "http://localhost"}

NoArg == [present |-> FALSE, numeric |-> FALSE, value |-> 0]
Junk == [present |-> TRUE, numeric |-> FALSE, value |-> 0]

RunValues == (-2 .. MaxRuns)
             \cup {LONG_MAX + 1, ULONG_MAX, ULONG_MAX + 1, 0 - ULONG_MAX - 2}

RunArgs == {NoArg, Junk}
           \cup {[present |-> TRUE, numeric |-> TRUE, value |-> v] : v \in RunValues}

\* A command line: argv[0], the last -u argument (NULL when the option is
\* absent or has no argument), the last -r argument, and whether -s occurs.
\* A null argv[0] comes with an empty argument vector.
Argvs == {[name |-> "hfis", u |-> u, r |-> r, s |-> s] :
              u \in Urls \cup {NULL}, r \in RunArgs, s \in BOOLEAN}
         \cup {[name |-> NULL, u |-> NULL, r |-> NoArg, s |-> FALSE]}

(* ------------------------------- time ---------------------------------- *)

ZeroTime == [tv_sec |-> 0, tv_nsec |-> 0]

\* The clock after TickNanos more nanoseconds.
Advance(t) ==
    IF t.tv_nsec + TickNanos >= NanosPerSec
    THEN [tv_sec |-> t.tv_sec + 1, tv_nsec |-> t.tv_nsec + TickNanos - NanosPerSec]
    ELSE [tv_sec |-> t.tv_sec, tv_nsec |-> t.tv_nsec + TickNanos]

\* Mutant of timespec_diff_macro: the borrow is left out.
timespec_diff_macro_NoBorrow(a, b) ==
    [tv_sec |-> a.tv_sec - b.tv_sec, tv_nsec |-> a.tv_nsec - b.tv_nsec]

timespec_diff_macro(a, b) ==
    LET sec == a.tv_sec - b.tv_sec
        nsec == a.tv_nsec - b.tv_nsec
    IN IF nsec < 0
       THEN [tv_sec |-> sec - 1, tv_nsec |-> nsec + 1000000000]
       ELSE [tv_sec |-> sec, tv_nsec |-> nsec]

(* ------------------------------ records -------------------------------- *)

\* A thread_info as calloc leaves it.
ZeroThreadInfo ==
    [thread_id |-> 0, thread_num |-> 0, url |-> NULL,
     start |-> ZeroTime, end |-> ZeroTime,
     response_code |-> 0, os_error_code |-> 0, curl_error_code |-> 0,
     curl_error_string |-> <<>>, curl_total |-> 0]

\* What curl_easy_perform and the three curl_easy_getinfo calls can report:
\* a 200, a completed request with a 404, a refused connection.
\* curl_error_string is a sequence of characters (tokens here).
Outcomes ==
    { [curl_error_code |-> CURLE_OK, response_code |-> 200, os_error_code |-> 0,
       curl_error_string |-> <<>>, curl_total |-> 1500],
      [curl_error_code |-> CURLE_OK, response_code |-> 404, os_error_code |-> 0,
       curl_error_string |-> <<>>, curl_total |-> 1200],
      [curl_error_code |-> CURLE_COULDNT_CONNECT, response_code |-> 0,
       os_error_code |-> ECONNREFUSED,
       curl_error_string |-> <<"Failed to connect", "\n">>, curl_total |-> 700] }

\* Mutant of calloc: the memory is not zeroed (malloc), and the error code
\* of a record starts with what the memory held.
calloc_NotZeroed(n) ==
    [k \in 0 .. (n - 1) |->
        [ZeroThreadInfo EXCEPT !.curl_error_code = CURLE_COULDNT_CONNECT]]

\* calloc(n, sizeof(struct thread_info)): n zeroed records, indexed from 0.
\* A count below 1 leaves no record to index (a negative long converts to a
\* size_t whose product with the record size overflows: calloc returns NULL).
calloc(n) == [k \in 0 .. (n - 1) |-> ZeroThreadInfo]

Workers == 0 .. (MaxRuns - 1)

\* The process runs until exit() or the return from main.
Alive == pc \notin {"exited", "done"}

(* ------------------------------- Init ---------------------------------- *)

Init ==
    /\ argv \in Argvs
    /\ pc = "getopt"
    /\ config = [program_name |-> argv.name, url |-> NULL, number_of_runs |-> 0,
                 silent |-> 0, program_start |-> ZeroTime, program_end |-> ZeroTime]
    /\ threads = calloc(0)
    /\ heap = "unallocated"
    /\ curl_global = [inits |-> 0, cleanups |-> 0]
    /\ i = 0
    /\ result = 0
    /\ errors = 0
    /\ out = <<>>
    /\ diag = <<>>
    /\ exit_status = -1
    /\ wpc = [k \in Workers |-> "none"]
    /\ clock = [tv_sec |-> 1, tv_nsec |-> 0]


(* --------------------------- the main thread --------------------------- *)

\* The getopt loop: -u stores its argument, -r stores strtoul of its
\* argument into the long number_of_runs, -s sets silent; -o and -l are
\* accepted and ignored, a missing argument (':') changes nothing.
GetoptLoop ==
    /\ pc = "getopt"
    /\ config' = [config EXCEPT
                    !.url = IF argv.u # NULL THEN argv.u ELSE @,
                    !.number_of_runs =
                        IF argv.r.present THEN ToLong(strtoul(argv.r)) ELSE @,
                    !.silent = IF argv.s THEN 1 ELSE @]
    /\ pc' = "validate"
    /\ UNCHANGED <<argv, threads, heap, curl_global, i, result, errors, out,
                   diag, exit_status, wpc, clock>>

\* Mutant of validate_configuration: the URL is not looked at.
validate_configuration_NoUrl(c) ==
    IF c.program_name = NULL \/ c.number_of_runs = 0 THEN 0 ELSE 1

validate_configuration(c) ==
    IF c.program_name = NULL \/ c.url = NULL \/ c.number_of_runs = 0
    THEN 0 ELSE 1

\* if(!validate_configuration(&config)) usage(config.program_name);
Validate ==
    /\ pc = "validate"
    /\ pc' = IF validate_configuration(config) = 0 THEN "usage" ELSE "setup"
    /\ UNCHANGED <<argv, config, threads, heap, curl_global, i, result, errors,
                   out, diag, exit_status, wpc, clock>>

\* usage(): four lines on standard output, then exit(1).
usage ==
    /\ pc = "usage"
    /\ out' = Append(out, [kind |-> "usage", program_name |-> config.program_name])
    /\ exit_status' = 1
    /\ pc' = "exited"
    /\ UNCHANGED <<argv, config, threads, heap, curl_global, i, result, errors,
                   diag, wpc, clock>>

\* Mutant of Setup: curl_global_init is left out.
Setup_NoGlobalInit ==
    /\ pc = "setup"
    /\ config' = [config EXCEPT !.program_start = clock]
    /\ clock' = Advance(clock)
    /\ threads' = calloc(config.number_of_runs)
    /\ heap' = IF config.number_of_runs >= 1 THEN "allocated" ELSE "null"
    /\ i' = 0
    /\ pc' = "create_loop"
    /\ UNCHANGED <<argv, curl_global, result, errors, out, diag, exit_status, wpc>>

\* program_start is taken, the records are allocated, libcurl is initialised.
Setup ==
    /\ pc = "setup"
    /\ config' = [config EXCEPT !.program_start = clock]
    /\ clock' = Advance(clock)
    /\ threads' = calloc(config.number_of_runs)
    /\ heap' = IF config.number_of_runs >= 1 THEN "allocated" ELSE "null"
    /\ curl_global' = [curl_global EXCEPT !.inits = @ + 1]
    /\ i' = 0
    /\ pc' = "create_loop"
    /\ UNCHANGED <<argv, result, errors, out, diag, exit_status, wpc>>

\* Mutant of handle_error_en: the message is printed and the loop goes on.
handle_error_en_NoExit(en, msg, n) ==
    /\ diag' = Append(diag, [kind |-> "perror", msg |-> msg, thread_num |-> n,
                             errno |-> en])
    /\ UNCHANGED exit_status
    /\ pc' = IF msg = "pthread_create" THEN "nanosleep" ELSE "aggregate"

\* perror(msg); exit(EXIT_FAILURE);
handle_error_en(en, msg, n) ==
    /\ diag' = Append(diag, [kind |-> "perror", msg |-> msg, thread_num |-> n,
                             errno |-> en])
    /\ exit_status' = EXIT_FAILURE
    /\ pc' = "exited"

CreateResults == {0, EAGAIN}

\* Mutant of InitRecord: ordinals counted from 1.
InitRecord_OneBased(t, n, url) == [t EXCEPT !.thread_num = n + 1, !.url = url]

\* threads[i].thread_num = i; threads[i].url = config.url;
InitRecord(t, n, url) == [t EXCEPT !.thread_num = n, !.url = url]

\* One iteration of the creation loop up to the nanosleep: the record gets
\* its ordinal and URL, pthread_create starts start_curl_run on it or fails.
CreateThread ==
    /\ pc = "create_loop"
    /\ i < config.number_of_runs
    /\ \E res \in CreateResults :
          /\ result' = res
          /\ IF res = 0
             THEN /\ threads' = [threads EXCEPT
                                   ![i] = [InitRecord(@, i, config.url)
                                              EXCEPT !.thread_id = i + 1]]
                  /\ wpc' = [wpc EXCEPT ![i] = "start"]
                  /\ pc' = "nanosleep"
                  /\ UNCHANGED <<diag, exit_status>>
             ELSE /\ threads' = [threads EXCEPT
                                   ![i] = InitRecord(@, i, config.url)]
                  /\ handle_error_en(res, "pthread_create", i)
                  /\ UNCHANGED wpc
    /\ UNCHANGED <<argv, config, heap, curl_global, i, errors, out, clock>>

\* Mutant of Nanosleep: the wait lasts until the thread just created is done.
Nanosleep_UntilThreadDone ==
    /\ pc = "nanosleep"
    /\ wpc[i] = "terminated"
    /\ i' = i + 1
    /\ pc' = "create_loop"
    /\ UNCHANGED <<argv, config, threads, heap, curl_global, result, errors,
                   out, diag, exit_status, wpc, clock>>

\* nanosleep((const struct timespec[]){{0, WAIT_TIME_NANO}}, NULL); i++
Nanosleep ==
    /\ pc = "nanosleep"
    /\ i' = i + 1
    /\ pc' = "create_loop"
    /\ UNCHANGED <<argv, config, threads, heap, curl_global, result, errors,
                   out, diag, exit_status, wpc, clock>>

\* Mutant of CreateLoopExit: the join loop starts at i = 1.
CreateLoopExit_StartAtOne ==
    /\ pc = "create_loop"
    /\ ~(i < config.number_of_runs)
    /\ errors' = 0
    /\ i' = 1
    /\ pc' = "join_loop"
    /\ UNCHANGED <<argv, config, threads, heap, curl_global, result, out, diag,
                   exit_status, wpc, clock>>

\* The creation loop ends; int errors = 0; the join loop starts at i = 0.
CreateLoopExit ==
    /\ pc = "create_loop"
    /\ ~(i < config.number_of_runs)
    /\ errors' = 0
    /\ i' = 0
    /\ pc' = "join_loop"
    /\ UNCHANGED <<argv, config, threads, heap, curl_global, result, out, diag,
                   exit_status, wpc, clock>>

JoinResults == {0, ESRCH}

\* Mutant of JoinThread: a failed join is reported and the record is
\* processed all the same.
JoinThread_IgnoreFailure ==
    /\ pc = "join_loop"
    /\ i < config.number_of_runs
    /\ \E res \in JoinResults :
          /\ result' = res
          /\ IF res = 0
             THEN /\ wpc[i] = "terminated"
                  /\ wpc' = [wpc EXCEPT ![i] = "joined"]
                  /\ UNCHANGED diag
             ELSE /\ diag' = Append(diag, [kind |-> "perror", msg |-> "pthread_join",
                                           thread_num |-> i, errno |-> res])
                  /\ UNCHANGED wpc
    /\ pc' = "aggregate"
    /\ UNCHANGED <<argv, config, threads, heap, curl_global, i, errors, out,
                   clock, exit_status>>

\* Mutant of JoinThread: the join returns 0 without waiting for the thread.
JoinThread_NoWait ==
    /\ pc = "join_loop"
    /\ i < config.number_of_runs
    /\ \E res \in JoinResults :
          /\ result' = res
          /\ IF res = 0
             THEN /\ wpc[i] # "none"
                  /\ wpc' = [wpc EXCEPT ![i] = IF @ = "terminated" THEN "joined" ELSE @]
                  /\ pc' = "aggregate"
                  /\ UNCHANGED <<diag, exit_status>>
             ELSE /\ handle_error_en(res, "pthread_join", i)
                  /\ UNCHANGED wpc
    /\ UNCHANGED <<argv, config, threads, heap, curl_global, i, errors, out, clock>>

\* pthread_join(threads[i].thread_id, &response): returns 0 once the thread
\* has terminated, or an error number.
JoinThread ==
    /\ pc = "join_loop"
    /\ i < config.number_of_runs
    /\ \E res \in JoinResults :
          /\ result' = res
          /\ IF res = 0
             THEN /\ wpc[i] = "terminated"
                  /\ wpc' = [wpc EXCEPT ![i] = "joined"]
                  /\ pc' = "aggregate"
                  /\ UNCHANGED <<diag, exit_status>>
             ELSE /\ handle_error_en(res, "pthread_join", i)
                  /\ UNCHANGED wpc
    /\ UNCHANGED <<argv, config, threads, heap, curl_global, i, errors, out, clock>>

\* Mutant of CountsAsError: a record counts unless its status is 200.
CountsAsError_ByStatus(t) == t.response_code # 200

\* if(threads[i].curl_error_code) ++errors;
CountsAsError(t) == t.curl_error_code # 0

\* Mutant of PrintsLine: silent mode prints nothing.
PrintsLine_SilentAll(silent, t) == silent = 0

\* Mutant of PrintsLine: silent mode prints every record but a 200.
PrintsLine_ByStatus(silent, t) == silent = 0 \/ t.response_code # 200

\* if(!config.silent || threads[i].curl_error_code)
PrintsLine(silent, t) == silent = 0 \/ t.curl_error_code # 0

\* The per-record line: the fields of the fprintf, nl being the newline the
\* format adds when curl_error_string holds none.
RecordLine(t, elapsed_time) ==
    [kind |-> "record", thread_num |-> t.thread_num,
     response_code |-> t.response_code,
     tv_sec |-> elapsed_time.tv_sec, tv_nsec |-> elapsed_time.tv_nsec,
     curl_total |-> t.curl_total, os_error_code |-> t.os_error_code,
     curl_error_code |-> t.curl_error_code,
     curl_error |-> t.curl_error_string,
     nl |-> IF \E n \in 1 .. Len(t.curl_error_string) :
                    t.curl_error_string[n] = "\n"
            THEN "" ELSE "\n"]

\* Mutant of EmitLine: the newest line comes first.
EmitLine_Front(o, line) == <<line>> \o o

\* fprintf(stdout, ...): the line is written after what was written before.
EmitLine(o, line) == Append(o, line)

\* Mutant of ProcessRecord: the error code is cleared once it is counted.
ProcessRecord_ClearsCode ==
    /\ pc = "aggregate"
    /\ LET t == threads[i]
           elapsed_time == timespec_diff_macro(t.end, t.start)
       IN /\ errors' = IF CountsAsError(t) THEN errors + 1 ELSE errors
          /\ out' = IF PrintsLine(config.silent, t)
                    THEN EmitLine(out, RecordLine(t, elapsed_time))
                    ELSE out
    /\ threads' = [threads EXCEPT ![i].curl_error_code = 0]
    /\ i' = i + 1
    /\ pc' = "join_loop"
    /\ UNCHANGED <<argv, config, heap, curl_global, result, diag,
                   exit_status, wpc, clock>>

\* The rest of the join loop's body for the joined record, and i++.
ProcessRecord ==
    /\ pc = "aggregate"
    /\ LET t == threads[i]
           elapsed_time == timespec_diff_macro(t.end, t.start)
       IN /\ errors' = IF CountsAsError(t) THEN errors + 1 ELSE errors
          /\ out' = IF PrintsLine(config.silent, t)
                    THEN EmitLine(out, RecordLine(t, elapsed_time))
                    ELSE out
    /\ i' = i + 1
    /\ pc' = "join_loop"
    /\ UNCHANGED <<argv, config, threads, heap, curl_global, result, diag,
                   exit_status, wpc, clock>>

\* The join loop ends: curl_global_cleanup, free, program_end, the summary
\* line, return 0.  The freed records keep their last contents in `threads`;
\* heap says the memory is gone.
Finish ==
    /\ pc = "join_loop"
    /\ ~(i < config.number_of_runs)
    /\ curl_global' = [curl_global EXCEPT !.cleanups = @ + 1]
    /\ heap' = IF heap = "allocated" THEN "freed" ELSE heap
    /\ config' = [config EXCEPT !.program_end = clock]
    /\ clock' = Advance(clock)
    /\ LET elapsed_program_time ==
               timespec_diff_macro(clock, config.program_start)
       IN out' = Append(out, [kind |-> "summary", errors |-> errors,
                              runs |-> config.number_of_runs,
                              tv_sec |-> elapsed_program_time.tv_sec,
                              tv_nsec |-> elapsed_program_time.tv_nsec])
    /\ exit_status' = 0
    /\ pc' = "done"
    /\ UNCHANGED <<argv, threads, i, result, errors, diag, wpc>>

Main ==
    \/ GetoptLoop
    \/ Validate
    \/ usage
    \/ Setup
    \/ CreateThread
    \/ Nanosleep
    \/ CreateLoopExit
    \/ JoinThread
    \/ ProcessRecord
    \/ Finish

(* ------------------------ start_curl_run, thread k --------------------- *)

\* Mutant of TakeStart: a thread starts only once the threads of lower
\* ordinals are done (one request at a time).
TakeStart_OneAtATime(k) ==
    /\ Alive
    /\ wpc[k] = "start"
    /\ \A j \in Workers : j < k => wpc[j] \in {"terminated", "joined"}
    /\ threads' = [threads EXCEPT ![k].start = clock]
    /\ clock' = Advance(clock)
    /\ wpc' = [wpc EXCEPT ![k] = "init"]
    /\ UNCHANGED <<argv, pc, config, heap, curl_global, i, result, errors, out,
                   diag, exit_status>>

\* timespec_get(&this_thread->start, TIME_UTC);
TakeStart(k) ==
    /\ Alive
    /\ wpc[k] = "start"
    /\ threads' = [threads EXCEPT ![k].start = clock]
    /\ clock' = Advance(clock)
    /\ wpc' = [wpc EXCEPT ![k] = "init"]
    /\ UNCHANGED <<argv, pc, config, heap, curl_global, i, result, errors, out,
                   diag, exit_status>>

\* Mutant of curl_easy_init: without a handle the thread returns at once.
curl_easy_init_EarlyReturn(k) ==
    /\ Alive
    /\ wpc[k] = "init"
    /\ \E curl \in BOOLEAN :
          IF curl
          THEN /\ threads' = [threads EXCEPT ![k].curl_error_string = <<>>]
               /\ wpc' = [wpc EXCEPT ![k] = "perform"]
               /\ UNCHANGED diag
          ELSE /\ diag' = Append(diag, [kind |-> "curl_init",
                                        thread_num |-> threads[k].thread_num])
               /\ wpc' = [wpc EXCEPT ![k] = "terminated"]
               /\ UNCHANGED threads
    /\ UNCHANGED <<argv, pc, config, heap, curl_global, i, result, errors, out,
                   exit_status, clock>>

\* curl_easy_init and what follows it up to the perform call: with a handle
\* the error string is cleared and the options are set; without one the
\* diagnostic is written to standard error.
curl_easy_init(k) ==
    /\ Alive
    /\ wpc[k] = "init"
    /\ \E curl \in BOOLEAN :
          IF curl
          THEN /\ threads' = [threads EXCEPT ![k].curl_error_string = <<>>]
               /\ wpc' = [wpc EXCEPT ![k] = "perform"]
               /\ UNCHANGED diag
          ELSE /\ diag' = Append(diag, [kind |-> "curl_init",
                                        thread_num |-> threads[k].thread_num])
               /\ wpc' = [wpc EXCEPT ![k] = "end"]
               /\ UNCHANGED threads
    /\ UNCHANGED <<argv, pc, config, heap, curl_global, i, result, errors, out,
                   exit_status, clock>>

\* Mutant of curl_easy_perform: every thread was handed &threads[0].
curl_easy_perform_SharedSlot(k) ==
    /\ Alive
    /\ wpc[k] = "perform"
    /\ \E o \in Outcomes :
          threads' = [threads EXCEPT
                        ![0].curl_error_code = o.curl_error_code,
                        ![0].curl_error_string = o.curl_error_string,
                        ![0].curl_total = o.curl_total,
                        ![0].response_code = o.response_code,
                        ![0].os_error_code = o.os_error_code]
    /\ wpc' = [wpc EXCEPT ![k] = "end"]
    /\ UNCHANGED <<argv, pc, config, heap, curl_global, i, result, errors, out,
                   diag, exit_status, clock>>

\* Mutant of curl_easy_perform: a failed request ends the process.
curl_easy_perform_Fatal(k) ==
    /\ Alive
    /\ wpc[k] = "perform"
    /\ \E o \in Outcomes :
          /\ threads' = [threads EXCEPT
                           ![k].curl_error_code = o.curl_error_code,
                           ![k].curl_error_string = o.curl_error_string,
                           ![k].curl_total = o.curl_total,
                           ![k].response_code = o.response_code,
                           ![k].os_error_code = o.os_error_code]
          /\ IF o.curl_error_code # 0
             THEN pc' = "exited" /\ exit_status' = EXIT_FAILURE
             ELSE UNCHANGED <<pc, exit_status>>
    /\ wpc' = [wpc EXCEPT ![k] = "end"]
    /\ UNCHANGED <<argv, config, heap, curl_global, i, result, errors, out,
                   diag, clock>>

\* curl_easy_perform returns; its result and the three getinfo values are
\* stored in the record; the handle is cleaned up.
curl_easy_perform(k) ==
    /\ Alive
    /\ wpc[k] = "perform"
    /\ \E o \in Outcomes :
          threads' = [threads EXCEPT
                        ![k].curl_error_code = o.curl_error_code,
                        ![k].curl_error_string = o.curl_error_string,
                        ![k].curl_total = o.curl_total,
                        ![k].response_code = o.response_code,
                        ![k].os_error_code = o.os_error_code]
    /\ wpc' = [wpc EXCEPT ![k] = "end"]
    /\ UNCHANGED <<argv, pc, config, heap, curl_global, i, result, errors, out,
                   diag, exit_status, clock>>

\* timespec_get(&this_thread->end, TIME_UTC); the thread terminates.
TakeEnd(k) ==
    /\ Alive
    /\ wpc[k] = "end"
    /\ threads' = [threads EXCEPT ![k].end = clock]
    /\ clock' = Advance(clock)
    /\ wpc' = [wpc EXCEPT ![k] = "terminated"]
    /\ UNCHANGED <<argv, pc, config, heap, curl_global, i, result, errors, out,
                   diag, exit_status>>

start_curl_run(k) ==
    \/ TakeStart(k)
    \/ curl_easy_init(k)
    \/ curl_easy_perform(k)
    \/ TakeEnd(k)

(* --------------------------- specifications ---------------------------- *)

Next ==
    \/ Main
    \/ \E k \in Workers : start_curl_run(k)

Spec == Init /\ [][Next]_vars

\* The scheduler runs every runnable thread, and every request returns.
FairSpec ==
    /\ Spec
    /\ WF_vars(Main)
    /\ \A k \in Workers : WF_vars(start_curl_run(k))

(* ---------------- the elapsed-time subtraction on its own -------------- *)

\* Largest tv_sec of the sampled timestamps.
MaxSec == 6

\* Timestamps as timespec_get can store them: a few seconds values, and
\* sub-second fields at both ends of 0..999999999 and in between.
TimeSamples ==
    {[tv_sec |-> s, tv_nsec |-> n] :
        s \in (MaxSec - 2) .. MaxSec,
        n \in {0, 1, 100000000, 900000000, 999999999}}

\* main right after the join of the only thread of a verbose run of one,
\* the record holding any two sampled timestamps and a 200.
DiffInit ==
    /\ argv = [name |-> "hfis", u |-> "http://localhost",
               r |-> [present |-> TRUE, numeric |-> TRUE, value |-> 1],
               s |-> FALSE]
    /\ pc = "aggregate"
    /\ \E st \in TimeSamples, en \in TimeSamples :
          /\ config = [program_name |-> "hfis", url |-> "http://localhost",
                       number_of_runs |-> 1, silent |-> 0,
                       program_start |-> st, program_end |-> ZeroTime]
          /\ threads = [k \in {0} |->
                          [ZeroThreadInfo EXCEPT
                             !.thread_id = 1, !.url = "http://localhost",
                             !.start = st, !.end = en,
                             !.response_code = 200, !.curl_total = 1500]]
          /\ clock = en
    /\ heap = "allocated"
    /\ curl_global = [inits |-> 1, cleanups |-> 0]
    /\ i = 0
    /\ result = 0
    /\ errors = 0
    /\ out = <<>>
    /\ diag = <<>>
    /\ exit_status = -1
    /\ wpc = [k \in Workers |-> IF k = 0 THEN "joined" ELSE "none"]

\* The two places that subtract: the record's line and the summary.
DiffNext ==
    \/ ProcessRecord
    \/ Finish

DiffSpec == DiffInit /\ [][DiffNext]_vars

(* ------------------------ vocabulary of the claims --------------------- *)

N == config.number_of_runs

Slots == DOMAIN threads

\* The positions of `out` that hold a line of the given kind.
LinesOf(kind) == {n \in 1 .. Len(out) : out[n].kind = kind}

RecordLinesOf(k) == {n \in LinesOf("record") : out[n].thread_num = k}

HasLine(k) == RecordLinesOf(k) # {}

\* The records whose transport error code is non-zero.
TransportErrors == {k \in Slots : threads[k].curl_error_code # 0}

\* Record k has been through the body of the join loop.
Processed(k) == wpc[k] = "joined" /\ ~(pc = "aggregate" /\ i = k)

\* a was read from the clock before b.
Earlier(a, b) ==
    \/ a.tv_sec < b.tv_sec
    \/ a.tv_sec = b.tv_sec /\ a.tv_nsec < b.tv_nsec

(* -------------------------------- C1 ----------------------------------- *)

\* C1: whenever the summary line has been emitted, the error count it
\* reports (and the errors variable) equals the number of records whose
\* curl_error_code is non-zero.
C1_ErrorCount ==
    \A n \in LinesOf("summary") :
        /\ out[n].errors = Cardinality(TransportErrors)
        /\ errors = Cardinality(TransportErrors)

\* Two or more runs, every request failed, and the summary says so.
C1_Witness ==
    /\ pc = "done"
    /\ N >= 2
    /\ TransportErrors = 0 .. (N - 1)
    /\ \E n \in LinesOf("summary") : out[n].errors = N

(* -------------------------------- C2 ----------------------------------- *)

\* C2: on a run of N >= 1 that reaches the summary, there is one record
\* slot per ordinal 0..N-1, the thread of every slot was created and
\* joined, no other thread exists, the stored ordinals are exactly 0..N-1
\* without duplicate, and the summary reports N runs.
C2_ExactlyN ==
    (pc = "done" /\ N >= 1) =>
        /\ Slots = 0 .. (N - 1)
        /\ \A k \in Slots : wpc[k] = "joined" /\ threads[k].thread_id # 0
        /\ \A k \in Workers \ Slots : wpc[k] = "none"
        /\ {threads[k].thread_num : k \in Slots} = 0 .. (N - 1)
        /\ \A k, j \in Slots :
              threads[k].thread_num = threads[j].thread_num => k = j
        /\ Cardinality(LinesOf("summary")) = 1
        /\ \A n \in LinesOf("summary") : out[n].runs = N

C2_Witness ==
    /\ pc = "done"
    /\ N = MaxRuns
    /\ \A k \in Slots : wpc[k] = "joined" /\ threads[k].thread_num = k

(* -------------------------------- C3 ----------------------------------- *)

\* C3: record k has a line exactly when it has been processed and the run
\* is not silent or the record's curl_error_code is non-zero; no record has
\* two lines; at the summary a silent run has as many record lines as
\* errors and a verbose run has N.
C3_LineIffVerboseOrError ==
    /\ \A k \in Slots :
          /\ HasLine(k) <=>
                (Processed(k) /\ (config.silent = 0 \/ threads[k].curl_error_code # 0))
          /\ Cardinality(RecordLinesOf(k)) <= 1
    /\ (pc = "done" /\ N >= 1) =>
          Cardinality(LinesOf("record")) = IF config.silent = 1 THEN errors ELSE N

\* A silent run that is over, with a suppressed success and a printed error.
C3_Witness ==
    /\ pc = "done"
    /\ config.silent = 1
    /\ \E k, j \in Slots :
          /\ threads[k].curl_error_code = 0 /\ ~HasLine(k)
          /\ threads[j].curl_error_code # 0 /\ HasLine(j)

(* -------------------------------- C4 ----------------------------------- *)

\* C4: the record lines on standard output are in strictly increasing
\* ordinal order, a summary line is the last line, and once main has
\* returned there is exactly one summary line.
C4_OrdinalOrder ==
    /\ \A p, q \in LinesOf("record") : p < q => out[p].thread_num < out[q].thread_num
    /\ \A n \in LinesOf("summary") : n = Len(out)
    /\ pc = "done" => Cardinality(LinesOf("summary")) = 1

\* Thread 1 finished before thread 0, and line 0 still precedes line 1.
C4_Witness ==
    /\ pc = "done"
    /\ N >= 2
    /\ Earlier(threads[1].end, threads[0].end)
    /\ HasLine(0) /\ HasLine(1)
    /\ out[Len(out)].kind = "summary"

(* -------------------------------- C5 ----------------------------------- *)

\* C5: with a run count of 0 (or none) or no URL, no thread is ever
\* created or joined, no record is allocated, libcurl is not initialised,
\* no record line and no summary line is written, and the only way the
\* process ends is usage followed by a non-zero exit status.
C5_InvalidConfiguration ==
    (N = 0 \/ config.url = NULL) =>
        /\ pc \in {"getopt", "validate", "usage", "exited"}
        /\ \A k \in Workers : wpc[k] = "none"
        /\ heap = "unallocated" /\ Slots = {}
        /\ curl_global.inits = 0
        /\ LinesOf("record") = {} /\ LinesOf("summary") = {}
        /\ pc = "exited" => (exit_status # 0 /\ LinesOf("usage") # {})

\* A run count without a URL: usage was printed and the process is gone.
C5_Witness ==
    /\ pc = "exited"
    /\ config.url = NULL
    /\ N = MaxRuns
    /\ LinesOf("usage") # {}
    /\ exit_status = 1

(* -------------------------------- C6 ----------------------------------- *)

\* C6: once validation has passed (the records have been requested from
\* calloc and the creation loop is reached), number_of_runs >= 1 and the URL
\* is a non-empty string.
C6_ValidatedConfiguration ==
    heap # "unallocated" => (N >= 1 /\ config.url # NULL /\ config.url # "")

(* -------------------------------- C7 ----------------------------------- *)

\* The diagnostics written by handle_error_en for the given call.
Failures(msg) ==
    {n \in 1 .. Len(diag) : diag[n].kind = "perror" /\ diag[n].msg = msg}

\* C7: once pthread_create has failed for ordinal k, the process has exited
\* with EXIT_FAILURE, no thread of ordinal k or above exists, no thread has
\* been joined, and standard output holds no record line and no summary.
C7_CreateFailureAborts ==
    \A n \in Failures("pthread_create") :
        /\ pc = "exited" /\ exit_status = EXIT_FAILURE
        /\ \A j \in Workers : j >= diag[n].thread_num => wpc[j] = "none"
        /\ \A j \in Workers : wpc[j] # "joined"
        /\ LinesOf("record") = {} /\ LinesOf("summary") = {}
        /\ Cardinality(Failures("pthread_create")) = 1

\* The creation of thread 1 failed while thread 0 had its request in flight.
C7_Witness ==
    /\ \E n \in Failures("pthread_create") : diag[n].thread_num = 1
    /\ wpc[0] = "perform"
    /\ pc = "exited"

(* -------------------------------- C8 ----------------------------------- *)

RequestError(k) ==
    \/ threads[k].curl_error_code # 0
    \/ threads[k].response_code # 0 /\ threads[k].response_code \notin 200 .. 299

\* C9 as stated: at the summary every request error, a non-2xx response
\* with transport code 0 included, is counted and has its line.
C9_EveryRequestErrorSurfaces ==
    pc = "done" =>
        /\ errors = Cardinality({k \in Slots : RequestError(k)})
        /\ \A k \in Slots : RequestError(k) => HasLine(k)

\* C9 amended: at the summary every record with a non-zero transport code is
\* counted and has its line, silent or not; a record with transport code 0,
\* whatever its response status, is not counted and has no line in a silent
\* run.
C9_TransportErrorsSurface ==
    pc = "done" =>
        /\ errors = Cardinality(TransportErrors)
        /\ \A k \in TransportErrors : HasLine(k)
        /\ \A k \in Slots \ TransportErrors : config.silent = 1 => ~HasLine(k)

\* A silent run that is over: a 404 without line, a refused connection with.
C9_Witness ==
    /\ pc = "done"
    /\ config.silent = 1
    /\ errors = 1
    /\ \E k, j \in Slots :
          /\ threads[k].response_code = 404 /\ ~HasLine(k)
          /\ threads[j].curl_error_code = CURLE_COULDNT_CONNECT /\ HasLine(j)

(* -------------------------------- C10 ---------------------------------- *)

\* main has returned 0 after joining every thread and writing one summary.
DoneOK ==
    /\ pc = "done" /\ exit_status = 0
    /\ \A k \in Slots : wpc[k] = "joined"
    /\ Cardinality(LinesOf("summary")) = 1

\* C10: under fair scheduling, with every request returning, a run ends in
\* usage, in a failed pthread_create or pthread_join, or else with all
\* threads joined, one summary line and exit status 0, whatever the
\* requests returned.
C10_RequestFailuresNotFatal ==
    <>( \/ LinesOf("usage") # {}
        \/ Failures("pthread_create") # {}
        \/ Failures("pthread_join") # {}
        \/ DoneOK )

\* A run that ended well with a failed request in slot 0 and a 200 in slot 1.
C10_Witness ==
    /\ DoneOK
    /\ N >= 2
    /\ threads[0].curl_error_code # 0
    /\ threads[1].curl_error_code = 0 /\ threads[1].response_code = 200
    /\ Failures("pthread_create") \cup Failures("pthread_join") = {}

(* -------------------------------- C11 ---------------------------------- *)

\* Thread k exists and has not reached the end of start_curl_run's request.
InFlight(k) == wpc[k] \in {"start", "init", "perform"}

\* C11: while the request of thread k has not returned, main is not past the
\* join of k (in the join loop i <= k, and record k is not being processed),
\* standard output holds no line of an ordinal >= k and no summary, main has
\* not returned, and the process is gone only where handle_error_en ended it
\* (a failed pthread_create or pthread_join).
C11_HungRequestBlocksJoin ==
    \A k \in Workers : InFlight(k) =>
        /\ pc \in {"join_loop", "aggregate"} => i <= k
        /\ pc = "aggregate" => i < k
        /\ \A j \in Slots : j >= k => ~HasLine(j)
        /\ LinesOf("summary") = {}
        /\ pc # "done" /\ exit_status # 0
        /\ pc = "exited" =>
              (Failures("pthread_create") \cup Failures("pthread_join")) # {}

\* Every other thread has finished, thread 0's request is still out, and
\* main sits at the join of thread 0.
C11_Witness ==
    /\ N = MaxRuns
    /\ wpc[0] = "perform"
    /\ \A k \in Slots \ {0} : wpc[k] = "terminated"
    /\ pc = "join_loop" /\ i = 0
    /\ out = <<>>

(* -------------------------------- C12 ---------------------------------- *)

\* C12: curl_global_init runs at most once and has run once whenever a
\* thread exists; curl_global_cleanup runs at most once, only with every
\* thread joined, and has run once when main has returned; so a thread that
\* exists and is not yet joined sees one init and no cleanup.
C12_GlobalInitAndCleanup ==
    /\ curl_global.inits <= 1 /\ curl_global.cleanups <= 1
    /\ \A k \in Workers : wpc[k] # "none" => curl_global.inits = 1
    /\ \A k \in Workers :
          wpc[k] \notin {"none", "joined"} => curl_global.cleanups = 0
    /\ curl_global.cleanups = 1 =>
          /\ curl_global.inits = 1
          /\ \A k \in Slots : wpc[k] = "joined"
    /\ pc = "done" => (curl_global.inits = 1 /\ curl_global.cleanups = 1)
    /\ pc = "create_loop" => curl_global.inits = 1

\* A full run that is over: one init, one cleanup, every thread joined.
C12_Witness ==
    /\ pc = "done"
    /\ N = MaxRuns
    /\ curl_global = [inits |-> 1, cleanups |-> 1]
    /\ \A k \in Slots : wpc[k] = "joined"

(* -------------------------------- C13 ---------------------------------- *)

\* C13: for a record whose end is not earlier than its start, the elapsed
\* time on its line has tv_sec >= 0 and 0 <= tv_nsec <= 999999999, sums with
\* the start to the end exactly (in nanoseconds), and took one second off
\* and added 1000000000 where the raw nanosecond difference is negative.
C13_ElapsedNormalised ==
    \A n \in LinesOf("record") :
        LET t == threads[out[n].thread_num]
            raw_sec == t.end.tv_sec - t.start.tv_sec
            raw_nsec == t.end.tv_nsec - t.start.tv_nsec
        IN ~Earlier(t.end, t.start) =>
              /\ out[n].tv_sec >= 0
              /\ out[n].tv_nsec >= 0 /\ out[n].tv_nsec <= 999999999
              /\ (raw_sec - out[n].tv_sec) * 1000000000 = out[n].tv_nsec - raw_nsec
              /\ raw_nsec < 0 =>
                    /\ out[n].tv_sec = raw_sec - 1
                    /\ out[n].tv_nsec = raw_nsec + 1000000000

\* start (5, 900000000), end (6, 100000000): the line says 0.200000000.
C13_Witness ==
    \E n \in LinesOf("record") :
        /\ threads[out[n].thread_num].start = [tv_sec |-> 5, tv_nsec |-> 900000000]
        /\ threads[out[n].thread_num].end = [tv_sec |-> 6, tv_nsec |-> 100000000]
        /\ out[n].tv_sec = 0 /\ out[n].tv_nsec = 200000000

(* -------------------------------- C14 ---------------------------------- *)

\* An aggregation step is running or has run: a record is being processed,
\* or one has been processed.
Aggregating == pc = "aggregate" \/ \E k \in Slots : Processed(k)

TimingAndOutcome(t) ==
    <<t.start, t.end, t.response_code, t.os_error_code, t.curl_error_code,
      t.curl_error_string, t.curl_total>>

\* The fields of a record that the creation loop writes before the thread.
OrdinalAndUrl(t) == <<t.thread_num, t.url>>

\* The step is a step of thread k alone: only its position moves, and main
\* stays where it is.
StepOfThread(k) ==
    /\ wpc'[k] # wpc[k]
    /\ \A m \in Workers \ {k} : wpc'[m] = wpc[m]
    /\ pc' = pc

\* C15: in every step, the timing and outcome fields of slot k change only
\* in a step of thread k taken between its creation and its completion, and
\* the ordinal and URL of slot k change only in main's creation step for k,
\* before thread k exists; and main processes (reads) record i only with
\* thread i joined, when no step of thread i is left.
C15_NoDataRace ==
    /\ [][\A k \in Slots \cap DOMAIN threads' :
            /\ TimingAndOutcome(threads'[k]) # TimingAndOutcome(threads[k]) =>
                  /\ wpc[k] \in {"start", "init", "perform", "end"}
                  /\ StepOfThread(k)
            /\ OrdinalAndUrl(threads'[k]) # OrdinalAndUrl(threads[k]) =>
                  /\ wpc[k] = "none"
                  /\ pc = "create_loop" /\ i = k
                  /\ \A m \in Workers : m # k => wpc'[m] = wpc[m]]_vars
    /\ [](pc = "aggregate" =>
             /\ wpc[i] = "joined"
             /\ ~ENABLED start_curl_run(i))

\* Two threads between creation and completion, each having written its own
\* slot only: slot 0 holds a failed request, slot 1 only its start time.
C15_Witness ==
    /\ N >= 2
    /\ wpc[0] = "end" /\ threads[0].curl_error_code # 0
    /\ wpc[1] = "init" /\ threads[1].start # ZeroTime
    /\ threads[1].curl_error_code = 0 /\ threads[1].end = ZeroTime

(* -------------------------------- C16 ---------------------------------- *)

\* The moves of a thread's position the claim allows: created, start taken,
\* handle obtained or not, request returned, end taken, joined.  No move
\* leads back, so each happens at most once per thread.
LifecycleMoves ==
    {<<"none", "start">>, <<"start", "init">>, <<"init", "perform">>,
     <<"init", "end">>, <<"perform", "end">>, <<"end", "terminated">>,
     <<"terminated", "joined">>}

\* The fields the request fills in.
OutcomeFields(t) ==
    <<t.response_code, t.os_error_code, t.curl_error_code, t.curl_total>>

\* The diagnostics of curl_easy_init returning no handle.
InitFailures == {n \in 1 .. Len(diag) : diag[n].kind = "curl_init"}

\* C16: a thread's position only moves along LifecycleMoves; the start
\* timestamp is written in the one move start -> init and in no other step,
\* the request's results in the one move perform -> end, the end timestamp
\* in the one move end -> terminated; a thread that has its start but not
\* its end has a zero end, a finished thread has both with the start first;
\* and a thread at the end of start_curl_run, with or without a handle, can
\* always take its end timestamp and terminate.
C16_OnePassLifecycle ==
    /\ [][\A k \in Workers :
            /\ wpc'[k] # wpc[k] => <<wpc[k], wpc'[k]>> \in LifecycleMoves
            /\ k \in Slots \cap DOMAIN threads' =>
                  /\ threads'[k].start # threads[k].start <=>
                        (wpc[k] = "start" /\ wpc'[k] = "init")
                  /\ threads'[k].end # threads[k].end <=>
                        (wpc[k] = "end" /\ wpc'[k] = "terminated")
                  /\ OutcomeFields(threads'[k]) # OutcomeFields(threads[k]) =>
                        (wpc[k] = "perform" /\ wpc'[k] = "end")]_vars
    /\ [](\A k \in Slots :
            /\ wpc[k] \in {"init", "perform", "end"} =>
                  (threads[k].start # ZeroTime /\ threads[k].end = ZeroTime)
            /\ wpc[k] \in {"terminated", "joined"} =>
                  /\ threads[k].start # ZeroTime /\ threads[k].end # ZeroTime
                  /\ Earlier(threads[k].start, threads[k].end)
            /\ (wpc[k] = "end" /\ Alive) => ENABLED TakeEnd(k))

\* Thread 0 got no handle, performed no request, and still terminated with
\* both timestamps.
C16_Witness ==
    /\ \E n \in InitFailures : diag[n].thread_num = 0
    /\ wpc[0] = "terminated"
    /\ threads[0].start # ZeroTime /\ threads[0].end # ZeroTime
    /\ OutcomeFields(threads[0]) = <<0, 0, 0, 0>>

(* -------------------------------- C17 ---------------------------------- *)

\* C17: a thread comes into being only in main's creation step for its own
\* ordinal i, with every lower ordinal created and no higher one, and that
\* step leads to the nanosleep; the nanosleep is left only for the loop head
\* with i + 1, creating nothing; so creations are in ordinal order with one
\* wait after each.  The wait can always end and the loop head can always
\* go on, whatever the threads created so far are doing.
C17_PacedCreationInOrder ==
    /\ [][/\ \A k \in Workers :
               (wpc[k] = "none" /\ wpc'[k] # "none") =>
                   /\ wpc'[k] = "start"
                   /\ pc = "create_loop" /\ i = k /\ pc' = "nanosleep" /\ i' = i
                   /\ \A j \in Workers : j < k => wpc[j] # "none"
                   /\ \A j \in Workers : j > k => wpc'[j] = "none"
          /\ (pc = "create_loop" /\ pc' = "nanosleep") =>
                 (wpc[i] = "none" /\ wpc'[i] = "start")
          /\ (pc = "nanosleep" /\ pc' # pc) =>
                 (pc' = "create_loop" /\ i' = i + 1 /\ wpc' = wpc)]_vars
    /\ [](pc = "nanosleep" => ENABLED Nanosleep)
    /\ [](pc = "create_loop" => ENABLED (CreateThread \/ CreateLoopExit))

\* Thread 1 has been created while thread 0 has not taken a single step.
C17_Witness ==
    /\ pc = "nanosleep" /\ i = 1
    /\ wpc[0] = "start" /\ wpc[1] = "start"
    /\ threads[0].start = ZeroTime

(* -------------------------------- C18 ---------------------------------- *)

\* C18: nothing serialises the threads: as long as the process runs, every
\* thread that exists and has not terminated can take its next step,
\* wherever the other threads and main are.
C18_ThreadsRunIndependently ==
    \A k \in Workers :
        (Alive /\ wpc[k] \in {"start", "init", "perform", "end"}) =>
            ENABLED start_curl_run(k)

\* A full run in which every thread had started before any had ended (all
\* were in flight at once) and thread 1 ended before thread 0.
C18_Witness ==
    /\ pc = "done"
    /\ N = MaxRuns /\ N >= 2
    /\ \A k, j \in Slots : Earlier(threads[k].start, threads[j].end)
    /\ Earlier(threads[1].end, threads[0].end)
    /\ \A k \in Slots : threads[k].response_code # 0 \/ threads[k].curl_error_code # 0

(* -------------------------------- C19 ---------------------------------- *)

\* C19: main's steps out of the processing of a record and out of the join
\* loop leave every field of every record as it was; hence at any later
\* time the error count equals the count taken again over the processed
\* records, and every record line equals the line computed again from its
\* record.
C19_AggregationReadOnly ==
    /\ [][(pc \in {"join_loop", "aggregate"} /\ pc' # pc) => threads' = threads]_vars
    /\ [](/\ pc \in {"join_loop", "aggregate", "done"} =>
                errors = Cardinality({k \in TransportErrors : Processed(k)})
          /\ \A n \in LinesOf("record") :
                LET t == threads[out[n].thread_num]
                IN out[n] = RecordLine(t, timespec_diff_macro(t.end, t.start)))

\* A full verbose run that is over, with an error counted and its line there.
C19_Witness ==
    /\ pc = "done"
    /\ N = MaxRuns
    /\ config.silent = 0
    /\ errors >= 1
    /\ Cardinality(LinesOf("record")) = N

(* -------------------------------- C20 ---------------------------------- *)

\* The slots whose thread got no handle from curl_easy_init.
InitFailed == {diag[n].thread_num : n \in InitFailures}

\* C20: the record of a thread that got no handle keeps the zeros calloc
\* gave its transport error code, response code, OS error code and request
\* time; it is never among the counted errors, has no line in a silent run,
\* and has its line in a verbose run once processed, as a success has.
C20_InitFailureLooksLikeSuccess ==
    /\ \A k \in InitFailed :
          /\ k \in Slots
          /\ threads[k].curl_error_code = 0 /\ threads[k].response_code = 0
          /\ threads[k].os_error_code = 0 /\ threads[k].curl_total = 0
          /\ threads[k].curl_error_string = <<>>
          /\ config.silent = 1 => ~HasLine(k)
          /\ (config.silent = 0 /\ Processed(k)) => HasLine(k)
    /\ pc \in {"join_loop", "aggregate", "done"} =>
          errors <= Cardinality({k \in Slots \ InitFailed : Processed(k)})

\* A silent run that is over in which no thread got a handle: no record
\* line, and a summary of 0 errors.
C20_Witness ==
    /\ pc = "done"
    /\ config.silent = 1
    /\ N = MaxRuns
    /\ InitFailed = Slots
    /\ LinesOf("record") = {}
    /\ \E n \in LinesOf("summary") : out[n].errors = 0

====
